---- MODULE Spec2Model ----
(***************************************************************************)
(* ClearCast AI: the session state of the App component (src/App.tsx) and  *)
(* the generation client (services/gemini: removeWatermarkFromImage,       *)
(* processVideoWatermark, fileToBase64).                                   *)
(*                                                                         *)
(* The browser runs one task at a time: a user event handler, or the       *)
(* continuation of an async function after an await, runs to its next      *)
(* await without interruption.  Each such run is one action.               *)
(***************************************************************************)
EXTENDS Integers, Sequences, FiniteSets, TLC

(* ---------------------------- bounds ----------------------------------- *)
MaxHistory == 2     \* start is no longer triggered once history holds this many
MaxReads == 1       \* file reads pending at the same time
MaxProcs == 2       \* handleProcess invocations pending at the same time
MaxPolls == 1       \* polls of an invocation whose targets its log keeps
MaxParts == 4       \* parts of a response of the image model

(* ---------------------------- values ----------------------------------- *)
Null == [kind |-> "null"]
NoError == << >>                      \* error === null

Mime(major, minor) == [major |-> major, minor |-> minor]
EmptyMime == Mime("", "")             \* useState<string>('')

\* file.type.startsWith(prefix + '/')
StartsWith(type, prefix) == type.major = prefix

File(type, content) == [type |-> type, content |-> content]
Files ==
  { File(Mime("image", "png"), "A"),
    File(Mime("video", "mp4"), "V") }

\* a data URL  data:<mime>;base64,<payload>
DataUrl(mime, data) == [kind |-> "dataurl", mime |-> mime, data |-> data]

\* FileReader.readAsDataURL: the file's type and its content, base64 encoded
fileToBase64(file) == DataUrl(file.type, file.content)

\* base64Image.split(',')[1] || base64Image
StripPrefix(url) ==
  IF url.kind = "dataurl" /\ url.data # "" THEN url.data ELSE url

(* messages are sequences of words, so that String.includes can be computed *)
ImageTypeError == << "Please select an image file." >>
VideoTypeError == << "Please select a video file." >>
ReadErrorMsg == << "Error reading file." >>
ImageFailedMsg == << "Failed to process the image." >>
VideoFailedMsg == << "Video processing timed out or failed." >>
ApiKeyErrorMsg == << "API Key configuration error. Please select a valid key." >>
UnexpectedMsg == << "An unexpected error occurred." >>
AuthMarker == << "Requested entity", "was not found" >>

\* the messages a fault thrown by the remote service can carry (<< >>: none)
FaultMsgs ==
  { << >>,
    << "Network error" >>,
    << "404", "Requested entity", "was not found" >> }

\* String.prototype.includes
Includes(msg, marker) ==
  \E i \in 0..(Len(msg) - Len(marker)) :
    \A j \in 1..Len(marker) : msg[i + j] = marker[j]

\* the marker compared with the whole message instead of searched in it
IsAuthFaultExact(msg) == msg = AuthMarker

\* err.message?.includes("Requested entity was not found")
IsAuthFault(msg) == Includes(msg, AuthMarker)

\* err.message || "An unexpected error occurred."
FaultText(msg) == IF msg = << >> THEN UnexpectedMsg ELSE msg

(* ------------------------- remote responses ---------------------------- *)
TextPart == [kind |-> "text"]
InlinePart(mime, data) == [kind |-> "inline", mime |-> mime, data |-> data]

\* a generateContent response; hasParts is FALSE when candidates, candidates[0],
\* content or parts is missing
Response(hasParts, parts) == [hasParts |-> hasParts, parts |-> parts]
ImageResponses ==
  { Response(FALSE, << >>),
    Response(TRUE, << >>),
    Response(TRUE, << TextPart >>),
    Response(TRUE, << TextPart, InlinePart(Mime("image", "png"), "R1") >>),
    Response(TRUE, << InlinePart(Mime("image", "png"), "R1"),
                      InlinePart(Mime("image", "webp"), "R2") >>) }

RECURSIVE FirstInline(_)
FirstInline(parts) ==
  IF parts = << >> THEN Null
  ELSE IF Head(parts).kind = "inline"
       THEN DataUrl(Head(parts).mime, Head(parts).data)
       ELSE FirstInline(Tail(parts))

\* a scan that looks at the first part only
ScanPartsFirstOnly(response) ==
  IF response.hasParts /\ response.parts # << >> /\ Head(response.parts).kind = "inline"
  THEN DataUrl(Head(response.parts).mime, Head(response.parts).data)
  ELSE Null

\* the scan of removeWatermarkFromImage over  response.candidates?.[0]?.content?.parts || []
ScanParts(response) == FirstInline(IF response.hasParts THEN response.parts ELSE << >>)

Handles == { "op1" }
\* operation.response?.generatedVideos : the URIs of the generated videos
VideoLists == { << >>, << "uri1" >>, << "uri1", "uri2" >> }
Operation(name, done, videos) == [name |-> name, done |-> done, videos |-> videos]

\* operation.response?.generatedVideos?.[0]?.video?.uri
DownloadLink(op) ==
  IF op.videos = << >> THEN Null ELSE [kind |-> "uri", uri |-> op.videos[1]]

\* `${downloadLink}&key=${process.env.API_KEY}`
WithKey(link, key) == [kind |-> "url", uri |-> link.uri, key |-> key]

\* a poll that names no job
PollTargetBlank(op) == ""

\* the job a poll request names: getVideosOperation({ operation: operation })
PollTarget(op) == op.name

Keys == { "k1" }
NoKey == "undefined"                  \* process.env.API_KEY not set

(* ----------------------------- state ----------------------------------- *)
VARIABLES
  activeTab,        \* 'image' | 'video'
  selectedFile,     \* data URL of the source, or Null
  mimeType,         \* MIME type of the last file accepted by handleFileSelect
  processedResult,  \* the result shown, or Null
  isProcessing,
  history,          \* EditHistory[], newest first
  error,            \* message, or NoError
  apiKey,           \* the credential the host has selected (process.env.API_KEY)
  reads,            \* handleFileSelect invocations suspended in fileToBase64
  procs,            \* handleProcess invocations suspended in an await
  resultOrigin,     \* the selectedFile captured by the call that produced processedResult
  lastEvent         \* the event handler or continuation that ran last

vars == << activeTab, selectedFile, mimeType, processedResult, isProcessing,
           history, error, apiKey, reads, procs, resultOrigin, lastEvent >>

session == << activeTab, selectedFile, mimeType, processedResult, isProcessing,
              history, error >>

Event(op, arg) == [op |-> op, arg |-> arg]

\* a continuation of the handleProcess invocation procs[i]: how it went on, the
\* message of the fault it caught and the videos of the job it saw done, if any
Resumed(i, outcome, msg, videos) ==
  Event("handleProcess", [i |-> i, outcome |-> outcome, msg |-> msg, videos |-> videos])

Init ==
  /\ activeTab = "image"
  /\ selectedFile = Null
  /\ mimeType = EmptyMime
  /\ processedResult = Null
  /\ isProcessing = FALSE
  /\ history = << >>
  /\ error = NoError
  /\ apiKey \in Keys \cup { NoKey }
  /\ reads = << >>
  /\ procs = << >>
  /\ resultOrigin = Null
  /\ lastEvent = Event("init", Null)

RemoveAt(s, i) == SubSeq(s, 1, i - 1) \o SubSeq(s, i + 1, Len(s))

(* what the page renders *)
HeroShown == selectedFile = Null          \* {!selectedFile && ...}: the file input
EditorShown == selectedFile # Null        \* {selectedFile && ...}: buttons, history list

(* ------------------------ user events ---------------------------------- *)
\* clearCurrent without its setError(null)
clearCurrentKeepError ==
  /\ selectedFile' = Null
  /\ processedResult' = Null
  /\ error' = error

\* clearCurrent
clearCurrent ==
  /\ selectedFile' = Null
  /\ processedResult' = Null
  /\ error' = NoError

\* mode buttons: setActiveTab(m); clearCurrent()
selectMode(m) ==
  /\ activeTab' = m
  /\ clearCurrent
  /\ resultOrigin' = Null
  /\ lastEvent' = Event("selectMode", m)
  /\ UNCHANGED << mimeType, isProcessing, history, apiKey, reads, procs >>

\* the Discard button clearing the source only
discardKeepResult ==
  /\ EditorShown
  /\ selectedFile' = Null
  /\ UNCHANGED << processedResult, error >>
  /\ resultOrigin' = Null
  /\ lastEvent' = Event("discard", Null)
  /\ UNCHANGED << activeTab, mimeType, isProcessing, history, apiKey, reads, procs >>

\* Discard button (rendered in the editor): clearCurrent
discard ==
  /\ EditorShown
  /\ clearCurrent
  /\ resultOrigin' = Null
  /\ lastEvent' = Event("discard", Null)
  /\ UNCHANGED << activeTab, mimeType, isProcessing, history, apiKey, reads, procs >>

\* the type check without its video branch
TypeCheckImageOnly(tab, file) ==
  IF tab = "image" /\ ~StartsWith(file.type, "image") THEN ImageTypeError ELSE NoError

\* the type check of handleFileSelect: the message it rejects the file with, or NoError
TypeCheck(tab, file) ==
  IF tab = "image" /\ ~StartsWith(file.type, "image") THEN ImageTypeError
  ELSE IF tab = "video" /\ ~StartsWith(file.type, "video") THEN VideoTypeError
  ELSE NoError

\* handleFileSelect up to its await
loadSource(file) ==
  /\ HeroShown
  /\ lastEvent' = Event("loadSource", file)
  /\ IF TypeCheck(activeTab, file) # NoError
     THEN /\ error' = TypeCheck(activeTab, file)
          /\ UNCHANGED << mimeType, reads >>
     ELSE /\ Len(reads) < MaxReads
          /\ mimeType' = file.type
          /\ reads' = Append(reads, file)
          /\ UNCHANGED error
  /\ UNCHANGED << activeTab, selectedFile, processedResult, isProcessing, history,
                  apiKey, procs, resultOrigin >>

\* handleFileSelect after its await, with a catch that reports nothing
readDoneSilent(i, ok) ==
  /\ i \in 1..Len(reads)
  /\ reads' = RemoveAt(reads, i)
  /\ lastEvent' = Event("readDone", ok)
  /\ IF ok
     THEN /\ selectedFile' = fileToBase64(reads[i])
          /\ processedResult' = Null
          /\ error' = NoError
          /\ resultOrigin' = Null
     ELSE UNCHANGED << error, selectedFile, processedResult, resultOrigin >>
  /\ UNCHANGED << activeTab, mimeType, isProcessing, history, apiKey, procs >>

\* handleFileSelect after its await: the read of reads[i] resolves or rejects
readDone(i, ok) ==
  /\ i \in 1..Len(reads)
  /\ reads' = RemoveAt(reads, i)
  /\ lastEvent' = Event("readDone", ok)
  /\ IF ok
     THEN /\ selectedFile' = fileToBase64(reads[i])
          /\ processedResult' = Null
          /\ error' = NoError
          /\ resultOrigin' = Null
     ELSE /\ error' = ReadErrorMsg
          /\ UNCHANGED << selectedFile, processedResult, resultOrigin >>
  /\ UNCHANGED << activeTab, mimeType, isProcessing, history, apiKey, procs >>

\* history item onClick
selectHistoryEntry(i) ==
  /\ EditorShown
  /\ i \in 1..Len(history)
  /\ activeTab' = history[i].type
  /\ selectedFile' = history[i].original
  /\ processedResult' = history[i].edited
  /\ resultOrigin' = history[i].original
  /\ lastEvent' = Event("selectHistoryEntry", i)
  /\ UNCHANGED << mimeType, isProcessing, history, error, apiKey, reads, procs >>

(* ------------------------- handleProcess ------------------------------- *)
\* the log of an invocation's polls keeps the targets of its last MaxPolls polls
Logged(log, t) ==
  IF Len(log) < MaxPolls THEN Append(log, t) ELSE Append(Tail(log), t)

NoOperation == Operation("", FALSE, << >>)

\* a handleProcess invocation suspended in an await: its position, the values of
\* activeTab, selectedFile and mimeType its closure captured, the request it
\* sent, the job it holds, and what it has called so far
Proc(pc, tab, src, mime) ==
  [ pc |-> pc, tab |-> tab, src |-> src, mime |-> mime,
    request |-> IF tab = "image"
                THEN [data |-> StripPrefix(src), mimeType |-> mime]
                ELSE [data |-> "", mimeType |-> EmptyMime],
    operation |-> NoOperation,
    submitted |-> "",         \* the handle the submission returned
    polls |-> << >>,          \* the handles of the polls issued, in order
    hasKeyCalls |-> 0,
    hadKey |-> "unasked",     \* what hasSelectedApiKey returned
    prompts |-> 0,            \* openSelectKey calls made by this invocation
    fault |-> << >> ]         \* the message of the fault caught

\* if (!selectedFile) return;
HandleProcessGuard == selectedFile # Null

\* the button without its disabled attribute
StartEnabledNoDisabled == EditorShown

\* the start/refine button is rendered in the editor, disabled={isProcessing}
StartEnabled == EditorShown /\ ~isProcessing

\* handleProcess going straight to the submission in video mode
FirstAwaitNoKeyCheck(tab) == IF tab = "image" THEN "imageCall" ELSE "submit"

\* the position handleProcess suspends at first: generateContent in image mode,
\* hasSelectedApiKey (checkAndPromptKey) in video mode
FirstAwait(tab) == IF tab = "image" THEN "imageCall" ELSE "hasKey"

\* handleProcess up to its first await
handleProcess ==
  /\ Len(history) < MaxHistory
  /\ Len(procs) < MaxProcs
  /\ isProcessing' = TRUE
  /\ error' = NoError
  /\ procs' = Append(procs,
       [ Proc(FirstAwait(activeTab), activeTab, selectedFile, mimeType)
           EXCEPT !.hasKeyCalls = IF activeTab = "video" THEN 1 ELSE 0 ])
  /\ lastEvent' = Event("startProcessing", Null)
  /\ UNCHANGED << activeTab, selectedFile, mimeType, processedResult, history,
                  apiKey, reads, resultOrigin >>

\* a start trigger: a click where the start/refine button is or would be; without
\* an enabled button, or when handleProcess returns at its guard, nothing happens
startProcessing ==
  IF StartEnabled /\ HandleProcessGuard THEN handleProcess ELSE UNCHANGED vars

\* Date.now() at the next addToHistory: later entries carry later stamps
Now == Len(history) + 1

\* addToHistory putting the new entry last
addToHistoryAppend(type, original, edited) ==
  history \o << [type |-> type, original |-> original, edited |-> edited, timestamp |-> Now] >>

\* addToHistory: a new entry in front, stamped with Date.now()
addToHistory(type, original, edited) ==
  << [type |-> type, original |-> original, edited |-> edited, timestamp |-> Now] >>
    \o history

\* the success path without the finally block
SucceedNoFinally(i, type, result, videos) ==
  /\ processedResult' = result
  /\ resultOrigin' = procs[i].src
  /\ history' = addToHistory(type, procs[i].src, result)
  /\ procs' = RemoveAt(procs, i)
  /\ lastEvent' = Resumed(i, "success", << >>, videos)
  /\ UNCHANGED << activeTab, selectedFile, mimeType, isProcessing, error, apiKey, reads >>

\* if (result) { setProcessedResult(result); addToHistory(...) } ; finally
Succeed(i, type, result, videos) ==
  /\ processedResult' = result
  /\ resultOrigin' = procs[i].src
  /\ history' = addToHistory(type, procs[i].src, result)
  /\ isProcessing' = FALSE
  /\ procs' = RemoveAt(procs, i)
  /\ lastEvent' = Resumed(i, "success", << >>, videos)
  /\ UNCHANGED << activeTab, selectedFile, mimeType, error, apiKey, reads >>

\* the image message in both branches
EmptyMessageImageOnly(type) == ImageFailedMsg

\* else { setError(...) } ; finally
EmptyMessage(type) == IF type = "image" THEN ImageFailedMsg ELSE VideoFailedMsg

\* the empty-result path also dropping the result the session holds
FailClearsResult(i, type, videos) ==
  /\ error' = EmptyMessage(type)
  /\ processedResult' = Null
  /\ isProcessing' = FALSE
  /\ procs' = RemoveAt(procs, i)
  /\ lastEvent' = Resumed(i, "empty", << >>, videos)
  /\ UNCHANGED << activeTab, selectedFile, mimeType, history, apiKey, reads, resultOrigin >>

Fail(i, type, videos) ==
  /\ error' = EmptyMessage(type)
  /\ isProcessing' = FALSE
  /\ procs' = RemoveAt(procs, i)
  /\ lastEvent' = Resumed(i, "empty", << >>, videos)
  /\ UNCHANGED << activeTab, selectedFile, mimeType, processedResult, history,
                  apiKey, reads, resultOrigin >>

\* catch (err): an authentication fault opens the key prompt and suspends;
\* any other fault is shown; finally
Catch(i, msg) ==
  IF IsAuthFault(msg)
  THEN /\ procs' = [procs EXCEPT ![i].pc = "promptCatch", ![i].prompts = @ + 1,
                                 ![i].fault = msg]
       /\ lastEvent' = Resumed(i, "authFault", msg, << >>)
       /\ UNCHANGED << session, apiKey, reads, resultOrigin >>
  ELSE /\ error' = FaultText(msg)
       /\ isProcessing' = FALSE
       /\ procs' = RemoveAt(procs, i)
       /\ lastEvent' = Resumed(i, "fault", msg, << >>)
       /\ UNCHANGED << activeTab, selectedFile, mimeType, processedResult, history,
                       apiKey, reads, resultOrigin >>

At(i, pc) == i \in 1..Len(procs) /\ procs[i].pc = pc

\* generateContent resolves
imageDone(i, response) ==
  /\ At(i, "imageCall")
  /\ response \in ImageResponses
  /\ IF ScanParts(response) # Null
     THEN Succeed(i, "image", ScanParts(response), << >>)
     ELSE Fail(i, "image", << >>)

\* generateContent rejects
imageFault(i, msg) ==
  /\ At(i, "imageCall")
  /\ msg \in FaultMsgs
  /\ Catch(i, msg)

\* the key prompt opened in the catch block is closed
promptCatchDone(i, k) ==
  /\ At(i, "promptCatch")
  /\ k \in Keys \cup { apiKey }
  /\ apiKey' = k
  /\ error' = ApiKeyErrorMsg
  /\ isProcessing' = FALSE
  /\ procs' = RemoveAt(procs, i)
  /\ lastEvent' = Resumed(i, "authError", procs[i].fault, << >>)
  /\ UNCHANGED << activeTab, selectedFile, mimeType, processedResult, history,
                  reads, resultOrigin >>

(* ---------------- handleProcess, video: processVideoWatermark ---------- *)
\* hasSelectedApiKey resolves: without a key the prompt opens, with one the job
\* is submitted (generateVideos)
hasKeyDone(i) ==
  /\ At(i, "hasKey")
  /\ procs' = IF apiKey = NoKey
              THEN [procs EXCEPT ![i].pc = "promptBefore", ![i].hadKey = "no",
                                 ![i].prompts = @ + 1]
              ELSE [procs EXCEPT ![i].pc = "submit", ![i].hadKey = "yes"]
  /\ lastEvent' = Resumed(i, "hasKey", << >>, << >>)
  /\ UNCHANGED << session, apiKey, reads, resultOrigin >>

\* the prompt opened by checkAndPromptKey is closed, with a key picked or not:
\* return true, and the job is submitted
promptBeforeDone(i, k) ==
  /\ At(i, "promptBefore")
  /\ k \in Keys \cup { apiKey }
  /\ apiKey' = k
  /\ procs' = [procs EXCEPT ![i].pc = "submit"]
  /\ lastEvent' = Resumed(i, "prompted", << >>, << >>)
  /\ UNCHANGED << session, reads, resultOrigin >>

\* after the poll loop: the first video's URI with the key, or null
VideoResult(op, key) ==
  IF DownloadLink(op) = Null THEN Null ELSE WithKey(DownloadLink(op), key)

\* the loop of processVideoWatermark with a cap on its attempts: once the log of
\* polls is full, a job still not done is given up as failed
AfterOperationCapped(i, op) ==
  IF ~op.done /\ Len(procs[i].polls) < MaxPolls
  THEN /\ procs' = [procs EXCEPT ![i].pc = "wait", ![i].operation = op,
                                 ![i].submitted =
                                   IF procs[i].pc = "submit" THEN op.name ELSE @]
       /\ lastEvent' = Resumed(i, "notDone", << >>, << >>)
       /\ UNCHANGED << session, apiKey, reads, resultOrigin >>
  ELSE IF op.done /\ VideoResult(op, apiKey) # Null
       THEN Succeed(i, "video", VideoResult(op, apiKey), op.videos)
       ELSE Fail(i, "video", op.videos)

\* processVideoWatermark holding `operation`: while (!operation.done) wait;
\* else return to handleProcess, which stores the result or the error
AfterOperation(i, op) ==
  IF ~op.done
  THEN /\ procs' = [procs EXCEPT ![i].pc = "wait", ![i].operation = op,
                                 ![i].submitted =
                                   IF procs[i].pc = "submit" THEN op.name ELSE @]
       /\ lastEvent' = Resumed(i, "notDone", << >>, << >>)
       /\ UNCHANGED << session, apiKey, reads, resultOrigin >>
  ELSE IF VideoResult(op, apiKey) # Null
       THEN Succeed(i, "video", VideoResult(op, apiKey), op.videos)
       ELSE Fail(i, "video", op.videos)

\* generateVideos resolves with a job
submitDone(i, name, done, videos) ==
  /\ At(i, "submit")
  /\ name \in Handles
  /\ done \in BOOLEAN
  /\ videos \in IF done THEN VideoLists ELSE { << >> }
  /\ AfterOperation(i, Operation(name, done, videos))

\* generateVideos rejects
submitFault(i, msg) ==
  /\ At(i, "submit")
  /\ msg \in FaultMsgs
  /\ Catch(i, msg)

\* the 10 s timer fires: getVideosOperation({ operation })
waitDone(i) ==
  /\ At(i, "wait")
  /\ procs' = [procs EXCEPT ![i].pc = "poll",
                            ![i].polls = Logged(@, PollTarget(procs[i].operation))]
  /\ lastEvent' = Resumed(i, "poll", << >>, << >>)
  /\ UNCHANGED << session, apiKey, reads, resultOrigin >>

\* getVideosOperation resolves with the state of the job it was asked about
pollDone(i, done, videos) ==
  /\ At(i, "poll")
  /\ done \in BOOLEAN
  /\ videos \in IF done THEN VideoLists ELSE { << >> }
  /\ AfterOperation(i, Operation(procs[i].polls[Len(procs[i].polls)], done, videos))

\* a poll whose fault is swallowed and followed by another wait and poll
pollFaultRetry(i, msg) ==
  /\ At(i, "poll")
  /\ msg \in FaultMsgs
  /\ procs' = [procs EXCEPT ![i].pc = "wait"]
  /\ lastEvent' = Resumed(i, "fault", msg, << >>)
  /\ UNCHANGED << session, apiKey, reads, resultOrigin >>

\* getVideosOperation rejects
pollFault(i, msg) ==
  /\ At(i, "poll")
  /\ msg \in FaultMsgs
  /\ Catch(i, msg)

(* --------------------------- specification ----------------------------- *)
Modes == { "image", "video" }

Next ==
  \/ \E m \in Modes : selectMode(m)
  \/ discard
  \/ \E f \in Files : loadSource(f)
  \/ \E i \in 1..MaxReads, ok \in BOOLEAN : readDone(i, ok)
  \/ \E i \in 1..MaxHistory : selectHistoryEntry(i)
  \/ startProcessing
  \/ \E i \in 1..MaxProcs, r \in ImageResponses : imageDone(i, r)
  \/ \E i \in 1..MaxProcs, msg \in FaultMsgs : imageFault(i, msg)
  \/ \E i \in 1..MaxProcs, k \in Keys \cup { NoKey } : promptCatchDone(i, k)
  \/ \E i \in 1..MaxProcs : hasKeyDone(i)
  \/ \E i \in 1..MaxProcs, k \in Keys \cup { NoKey } : promptBeforeDone(i, k)
  \/ \E i \in 1..MaxProcs, h \in Handles, d \in BOOLEAN, v \in VideoLists :
       submitDone(i, h, d, v)
  \/ \E i \in 1..MaxProcs, msg \in FaultMsgs : submitFault(i, msg)
  \/ \E i \in 1..MaxProcs : waitDone(i)
  \/ \E i \in 1..MaxProcs, d \in BOOLEAN, v \in VideoLists :
       pollDone(i, d, v)
  \/ \E i \in 1..MaxProcs, msg \in FaultMsgs : pollFault(i, msg)

Spec == Init /\ [][Next]_vars

\* a continuation of a pending handleProcess invocation: the call or prompt it
\* awaits settles, or the timer of its wait fires
Continue ==
  \E i \in 1..MaxProcs :
    \/ \E r \in ImageResponses : imageDone(i, r)
    \/ \E msg \in FaultMsgs : imageFault(i, msg) \/ submitFault(i, msg) \/ pollFault(i, msg)
    \/ \E k \in Keys \cup { NoKey } : promptCatchDone(i, k) \/ promptBeforeDone(i, k)
    \/ hasKeyDone(i)
    \/ \E h \in Handles, d \in BOOLEAN, v \in VideoLists : submitDone(i, h, d, v)
    \/ waitDone(i)
    \/ \E d \in BOOLEAN, v \in VideoLists : pollDone(i, d, v)

\* every awaited call, prompt and timer eventually settles and its continuation
\* runs; nothing is assumed of the user, nor of what a call settles with
FairSpec == Spec /\ WF_vars(Continue)

(* ------------- removeWatermarkFromImage on its own --------------------- *)
\* the responses generateContent can resolve with: no part list, or a list of up
\* to MaxParts text and inline parts
PartKinds ==
  { TextPart,
    InlinePart(Mime("image", "png"), "R1"),
    InlinePart(Mime("image", "webp"), "R2") }
PartLists == UNION { [1..n -> PartKinds] : n \in 0..MaxParts }
ScanInputs == { Response(TRUE, p) : p \in PartLists } \cup { Response(FALSE, << >>) }

\* an idle session; generateContent has resolved with a response
InitScan ==
  /\ activeTab = "image"
  /\ selectedFile = Null
  /\ mimeType = EmptyMime
  /\ processedResult = Null
  /\ isProcessing = FALSE
  /\ history = << >>
  /\ error = NoError
  /\ apiKey = NoKey
  /\ reads = << >>
  /\ procs = << >>
  /\ resultOrigin = Null
  /\ \E r \in ScanInputs : lastEvent = Event("response", r)

\* removeWatermarkFromImage after its await: the scan and its return value
returnImage ==
  /\ lastEvent.op = "response"
  /\ lastEvent' = Event("returned", [response |-> lastEvent.arg,
                                     result |-> ScanParts(lastEvent.arg)])
  /\ UNCHANGED << session, apiKey, reads, procs, resultOrigin >>

NextScan == returnImage

SpecScan == InitScan /\ [][NextScan]_vars

(* ------------------------------ claims --------------------------------- *)
\* the awaits of a generation call: the image edit, the video submission, the
\* wait between polls and the polls
CallPcs == { "imageCall", "submit", "wait", "poll" }
Outstanding == { i \in 1..Len(procs) : procs[i].pc \in CallPcs }

\* C1: in every reachable state a non-empty result was produced by the generation
\* call dispatched for the current source; a result arriving after its source was
\* cleared or replaced is not stored.
C1_ResultOfCurrentSource ==
  processedResult # Null => resultOrigin = selectedFile

\* C2: at most one generation call is outstanding in every reachable state, and
\* while one is outstanding a start trigger starts nothing, whatever the user did
\* to the source or the mode in the meantime.
C2_OneOutstandingCall ==
  /\ Cardinality(Outstanding) <= 1
  /\ Outstanding # {} => Len(procs) = 1 /\ ~ENABLED << startProcessing >>_vars

\* a call is pending for a source the user has since replaced, with the start
\* button on the page
C2_Witness ==
  /\ Outstanding # {}
  /\ selectedFile # Null
  /\ \E i \in Outstanding : procs[i].src # selectedFile

\* C3: when source is empty or processing is true, startProcessing changes no
\* session field and issues no network call and no key-provisioning call.
C3_StartIsNoOp ==
  (selectedFile = Null \/ isProcessing) => ~ENABLED << startProcessing >>_vars

\* the button is on the page (a source is loaded) while processing is true
C3_Witness ==
  /\ isProcessing
  /\ selectedFile # Null
  /\ lastEvent.op = "readDone"

\* the handleProcess invocation whose continuation is the step being taken
ResumedProc == procs[lastEvent'.arg.i]
Resumes(outcome) ==
  lastEvent'.op = "handleProcess" /\ lastEvent'.arg.outcome = outcome /\ procs' # procs

\* C4: selecting a history entry sets mode, source and result to the entry's
\* mode, originalAsset and editedAsset and leaves error empty.
C4_SelectRestoresAndClearsError ==
  [][ lastEvent'.op = "selectHistoryEntry" =>
        /\ activeTab' = history[lastEvent'.arg].type
        /\ selectedFile' = history[lastEvent'.arg].original
        /\ processedResult' = history[lastEvent'.arg].edited
        /\ error' = NoError ]_vars

\* the prompts a handleProcess invocation has opened when it ends on an
\* authentication fault: one in the catch block, after one before dispatch when
\* hasSelectedApiKey had answered false
PromptsExpected(p) == IF p.hadKey = "no" THEN 2 ELSE 1

\* C5 as claimed: a call ending on a fault whose message contains the marker has
\* opened the key prompt exactly once, and the error is the configuration message.
C5_PromptedExactlyOnce ==
  [][ Resumes("authError") =>
        /\ ResumedProc.prompts = 1
        /\ error' = ApiKeyErrorMsg ]_vars

\* C5 as amended: a fault whose message contains the marker is never shown as
\* raw text; the call it ends has opened the key prompt once in its catch block,
\* which is its only prompt unless hasKey() had answered false before a video
\* job (then it is the second), and the error is the configuration message.
C5_AuthFaultPrompts ==
  [][ /\ Resumes("fault") => ~Includes(lastEvent'.arg.msg, AuthMarker)
      /\ Resumes("authError") =>
           /\ Includes(lastEvent'.arg.msg, AuthMarker)
           /\ ResumedProc.prompts = PromptsExpected(ResumedProc)
           /\ error' = ApiKeyErrorMsg
           /\ error' # lastEvent'.arg.msg ]_vars

\* a video call that was prompted for a key before dispatch has ended on an
\* authentication fault, and the configuration message is shown
C5_Witness ==
  /\ lastEvent.op = "handleProcess"
  /\ lastEvent.arg.outcome = "authError"
  /\ Len(lastEvent.arg.msg) > Len(AuthMarker)
  /\ error = ApiKeyErrorMsg
  /\ apiKey = NoKey

\* C6: a successful image edit prepends exactly one entry whose originalAsset is
\* the session's source and whose editedAsset is the session's result, the
\* earlier entries following in their order.
C6_EntryOfSessionSource ==
  [][ Resumes("success") /\ ResumedProc.tab = "image" =>
        /\ Len(history') = Len(history) + 1
        /\ Tail(history') = history
        /\ history'[1].original = selectedFile'
        /\ history'[1].edited = processedResult' ]_vars

\* C7: a call that completes without a fault and without a result leaves a
\* non-empty error that is the message of the call's mode, processing false and
\* history unchanged.
C7_EmptyResultFails ==
  [][ Resumes("empty") =>
        /\ error' # NoError
        /\ error' = (IF ResumedProc.tab = "image" THEN ImageFailedMsg ELSE VideoFailedMsg)
        /\ ImageFailedMsg # VideoFailedMsg
        /\ isProcessing' = FALSE
        /\ history' = history ]_vars

\* a video job was seen done without a generated video, after an earlier success
C7_Witness ==
  /\ lastEvent.op = "handleProcess"
  /\ lastEvent.arg.outcome = "empty"
  /\ error = VideoFailedMsg
  /\ ~isProcessing
  /\ history # << >>

\* C8: a file whose declared type does not match the active mode is rejected with
\* the wrong-file-type message of that mode; source and result are unchanged, no
\* encoding read is started and no call is issued.
C8_WrongTypeRejected ==
  [][ /\ lastEvent'.op = "loadSource"
      /\ \/ activeTab = "image" /\ lastEvent'.arg.type.major # "image"
         \/ activeTab = "video" /\ lastEvent'.arg.type.major # "video"
      => /\ error' = (IF activeTab = "image" THEN ImageTypeError ELSE VideoTypeError)
         /\ error' # NoError
         /\ UNCHANGED << activeTab, selectedFile, processedResult, mimeType, reads, procs,
                         isProcessing, history >> ]_vars

\* an image file was picked in video mode and rejected
C8_Witness ==
  /\ lastEvent.op = "loadSource"
  /\ activeTab = "video"
  /\ lastEvent.arg.type.major = "image"
  /\ error = VideoTypeError
  /\ reads = << >>

\* C9: selectMode(m), from any state, sets mode to m, empties source, result and
\* error, and leaves history unchanged.
C9_SelectModeClears ==
  [][ lastEvent'.op = "selectMode" =>
        /\ activeTab' = lastEvent'.arg
        /\ selectedFile' = Null
        /\ processedResult' = Null
        /\ error' = NoError
        /\ history' = history ]_vars

\* the mode was switched while a call was pending and history was not empty
C9_Witness ==
  /\ lastEvent.op = "selectMode"
  /\ lastEvent.arg = "video"
  /\ activeTab = "video"
  /\ isProcessing
  /\ procs # << >>
  /\ history # << >>

\* C10: every poll follows the submission and names the job the submission
\* returned; a job is waited on or polled only while its last observed status is
\* not done; the call returns the first generated video's URI with the current
\* credential appended.
C10_PollLoop ==
  /\ [](\A i \in 1..Len(procs) :
          /\ procs[i].polls # << >> => procs[i].submitted # ""
          /\ \A j \in 1..Len(procs[i].polls) : procs[i].polls[j] = procs[i].submitted
          /\ procs[i].pc \in { "wait", "poll" } =>
               procs[i].submitted # "" /\ ~procs[i].operation.done)
  /\ [][ Resumes("success") /\ ResumedProc.tab = "video" =>
           /\ lastEvent'.arg.videos # << >>
           /\ processedResult' =
                [kind |-> "url", uri |-> lastEvent'.arg.videos[1], key |-> apiKey] ]_vars

\* a poll is pending for the job the submission returned
C10_Witness ==
  \E i \in 1..Len(procs) :
    /\ procs[i].pc = "poll"
    /\ procs[i].submitted \in Handles
    /\ procs[i].polls = << procs[i].submitted >>

\* C11: discard empties the source, the result and the error and leaves the mode
\* and the history as they were, whatever the session held (a result, an error, a
\* call in flight).
C11_DiscardClears ==
  [][ lastEvent'.op = "discard" =>
        /\ selectedFile' = Null
        /\ processedResult' = Null
        /\ error' = NoError
        /\ activeTab' = activeTab
        /\ history' = history ]_vars

\* discard has just emptied a session that held a result while a call is in flight
C11_Witness ==
  /\ lastEvent.op = "discard"
  /\ selectedFile = Null /\ processedResult = Null /\ error = NoError
  /\ isProcessing
  /\ history # << >>

\* C12: a video job is submitted, waited on or polled only after hasKey() was
\* called once and answered; when it answered false the prompt was opened before
\* the submission, and when the prompt closes the job is submitted whatever key
\* is then selected, hasKey() not being called again; an image call is dispatched
\* without any key-provisioning call.
C12_KeyCheckedBeforeVideoJob ==
  /\ [](\A i \in 1..Len(procs) :
          /\ procs[i].pc \in { "submit", "wait", "poll" } =>
               /\ procs[i].tab = "video"
               /\ procs[i].hasKeyCalls = 1
               /\ procs[i].hadKey \in { "yes", "no" }
               /\ procs[i].prompts = (IF procs[i].hadKey = "no" THEN 1 ELSE 0)
          /\ procs[i].pc = "promptBefore" =>
               procs[i].tab = "video" /\ procs[i].hadKey = "no"
          /\ procs[i].pc = "imageCall" =>
               /\ procs[i].tab = "image"
               /\ procs[i].hasKeyCalls = 0
               /\ procs[i].hadKey = "unasked"
               /\ procs[i].prompts = 0)
  /\ [][ /\ Resumes("hasKey") =>
              procs'[lastEvent'.arg.i].pc =
                (IF apiKey = NoKey THEN "promptBefore" ELSE "submit")
         /\ Resumes("prompted") =>
              /\ procs'[lastEvent'.arg.i].pc = "submit"
              /\ procs'[lastEvent'.arg.i].hasKeyCalls = 1 ]_vars

\* the prompt opened before dispatch was dismissed without a key and the job is
\* being submitted all the same
C12_Witness ==
  \E i \in 1..Len(procs) :
    /\ procs[i].pc = "submit"
    /\ procs[i].hadKey = "no"
    /\ procs[i].prompts = 1
    /\ apiKey = NoKey

VideoPcs == { "submit", "wait", "poll" }

\* C13: a fault of the submission or of a poll ends the video operation: the
\* invocation issues no further submission or poll, the handler receives the
\* fault's own message, history is unchanged, and the invocation ends with
\* processing false and a non-empty error (the fault's message, the fallback
\* message when it has none, or, after the prompt of an authentication fault,
\* the configuration message); an invocation is started by a start trigger
\* only, submits only after its key check and polls only after its wait.
C13_FaultAborts ==
  [][ /\ Len(procs') > Len(procs) => lastEvent'.op = "startProcessing"
      /\ lastEvent'.op = "handleProcess" /\ procs' # procs =>
           /\ lastEvent'.arg.outcome \in { "fault", "authFault" }
                /\ ResumedProc.pc \in { "submit", "poll" } =>
                /\ lastEvent'.arg.msg \in FaultMsgs
                /\ history' = history
                /\ \A j \in 1..Len(procs') : procs'[j].pc \notin VideoPcs
                /\ lastEvent'.arg.outcome = "fault" =>
                     /\ Len(procs') = Len(procs) - 1
                     /\ ~isProcessing'
                     /\ error' # NoError
                     /\ error' = (IF lastEvent'.arg.msg = << >> THEN UnexpectedMsg
                                  ELSE lastEvent'.arg.msg)
                /\ lastEvent'.arg.outcome = "authFault" =>
                     /\ Includes(lastEvent'.arg.msg, AuthMarker)
                     /\ procs'[lastEvent'.arg.i].pc = "promptCatch"
                     /\ procs'[lastEvent'.arg.i].fault = lastEvent'.arg.msg
                     /\ procs'[lastEvent'.arg.i].polls = ResumedProc.polls
           /\ lastEvent'.arg.outcome = "authError" =>
                /\ Len(procs') = Len(procs) - 1
                /\ ~isProcessing'
                /\ error' # NoError
                /\ history' = history
           /\ Len(procs') = Len(procs) =>
                \A j \in 1..Len(procs) :
                  /\ (procs'[j].pc = "submit" /\ procs[j].pc # "submit") =>
                       procs[j].pc \in { "hasKey", "promptBefore" }
                  /\ (procs'[j].pc = "poll" /\ procs[j].pc # "poll") =>
                       procs[j].pc = "wait"
                  /\ procs'[j].polls # procs[j].polls => procs[j].pc = "wait"
      /\ lastEvent'.op # "handleProcess" =>
           \A j \in 1..Len(procs) :
             j <= Len(procs') => /\ procs'[j].pc = procs[j].pc
                                 /\ procs'[j].polls = procs[j].polls ]_vars

\* a poll has just faulted with a plain message: the session shows it and is idle
C13_Witness ==
  /\ lastEvent.op = "handleProcess"
  /\ lastEvent.arg.outcome = "fault"
  /\ lastEvent.arg.msg = << "Network error" >>
  /\ error = << "Network error" >>
  /\ ~isProcessing
  /\ procs = << >>
  /\ activeTab = "video"
  /\ processedResult = Null
  /\ history # << >>

Polling == \E i \in 1..Len(procs) : procs[i].pc \in { "wait", "poll" }
AtPoll == \E i \in 1..Len(procs) : procs[i].pc = "poll"

\* C14: when every awaited call, prompt and timer settles, processing becomes
\* false again unless the invocation stays in the poll loop for ever; it leaves
\* Processing with a result or with an error.  The loop has no cap and no
\* timeout: after any number of polls a "not done" answer leads to another wait
\* and the wait to another poll, with processing true and the error untouched,
\* so an invocation whose job is never done and whose calls never fault polls
\* again and again, processing staying true.
C14_Termination ==
  /\ [](isProcessing => <>(~isProcessing \/ []Polling))
  /\ (<>[]Polling => []<>AtPoll)
  /\ [](\A i \in 1..Len(procs) :
          /\ procs[i].pc = "wait" =>
               /\ isProcessing
               /\ ENABLED << waitDone(i) /\ procs'[i].pc = "poll" >>_vars
          /\ procs[i].pc = "poll" =>
               /\ isProcessing
               /\ ENABLED << /\ pollDone(i, FALSE, << >>)
                             /\ Len(procs') = Len(procs)
                             /\ procs'[i].pc = "wait"
                             /\ isProcessing'
                             /\ error' = error >>_vars)
  /\ [][ isProcessing /\ ~isProcessing' =>
           \/ Resumes("success") /\ processedResult' # Null
           \/ (Resumes("empty") \/ Resumes("fault") \/ Resumes("authError"))
                /\ error' # NoError ]_vars

\* a poll was answered "not done" and the invocation waits to poll again
C14_Witness ==
  /\ lastEvent.op = "handleProcess"
  /\ lastEvent.arg.outcome = "notDone"
  /\ isProcessing
  /\ \E i \in 1..Len(procs) :
       /\ procs[i].pc = "wait"
       /\ Len(procs[i].polls) = MaxPolls

\* C15: a step leaves history as it was, or it is the success of a generation
\* call and puts one entry in front of the others, which stay as they were; the
\* entry holds the call's non-empty result and the mode and source that the
\* invocation captured from the session when it was dispatched.
C15_HistoryPrependOnly ==
  [][ /\ \/ history' = history
         \/ /\ Resumes("success")
            /\ Len(history') = Len(history) + 1
            /\ Tail(history') = history
            /\ history'[1].edited = processedResult'
            /\ history'[1].edited # Null
            /\ history'[1].type = ResumedProc.tab
            /\ history'[1].original = ResumedProc.src
      /\ Len(procs') > Len(procs) =>
           /\ procs'[Len(procs')].tab = activeTab
           /\ procs'[Len(procs')].src = selectedFile
           /\ selectedFile # Null ]_vars

\* a second entry was prepended for a call dispatched in the other mode with
\* another source than the session now holds
C15_Witness ==
  /\ lastEvent.op = "handleProcess"
  /\ lastEvent.arg.outcome = "success"
  /\ Len(history) = 2
  /\ history[1].edited = processedResult
  /\ history[1].type # activeTab
  /\ history[1].original # selectedFile
  /\ history[1] # history[2]

\* C16: when the read of an accepted file succeeds, source becomes the data URL
\* of that file's type and content and result and error become empty; when it
\* fails, error becomes the read-error message and source and result stay as
\* they were; history is unchanged in both cases.
C16_ReadOutcome ==
  [][ lastEvent'.op = "readDone" /\ reads' # reads =>
        /\ history' = history
        /\ \E i \in 1..Len(reads) :
             /\ reads' = RemoveAt(reads, i)
             /\ reads[i].type.major = "image" \/ reads[i].type.major = "video"
             /\ IF lastEvent'.arg
                THEN /\ selectedFile' = [kind |-> "dataurl", mime |-> reads[i].type,
                                         data |-> reads[i].content]
                     /\ processedResult' = Null
                     /\ error' = NoError
                ELSE /\ error' = ReadErrorMsg
                     /\ error' # NoError
                     /\ selectedFile' = selectedFile
                     /\ processedResult' = processedResult ]_vars

\* a read has just failed while the session held a result and a history
C16_Witness ==
  /\ lastEvent.op = "readDone"
  /\ lastEvent.arg = FALSE
  /\ error = ReadErrorMsg
  /\ selectedFile = Null
  /\ processedResult # Null
  /\ history # << >>

\* C17: the image call returns the data URL made of the MIME type and payload of
\* the part with the least index among the parts that carry inline data, and it
\* returns null exactly when there is no such part, a missing or empty part list
\* included; the scan always returns.
C17_FirstInlinePart ==
  lastEvent.op = "returned" =>
    LET r == lastEvent.arg.response
        result == lastEvent.arg.result
        parts == IF r.hasParts THEN r.parts ELSE << >>
        inline == { j \in 1..Len(parts) : parts[j].kind = "inline" }
    IN  /\ r \in ScanInputs
        /\ (result = Null) <=> (inline = {})
        /\ inline # {} =>
             \E j \in inline :
               /\ \A k \in inline : j <= k
               /\ result = [kind |-> "dataurl", mime |-> parts[j].mime,
                            data |-> parts[j].data]

\* the call returned the second part, the first inline one of three
C17_Witness ==
  /\ lastEvent.op = "returned"
  /\ lastEvent.arg.response.hasParts
  /\ Len(lastEvent.arg.response.parts) = 3
  /\ lastEvent.arg.response.parts[1] = TextPart
  /\ lastEvent.arg.response.parts[2] = InlinePart(Mime("image", "webp"), "R2")
  /\ lastEvent.arg.response.parts[3] = InlinePart(Mime("image", "png"), "R1")
  /\ lastEvent.arg.result = DataUrl(Mime("image", "webp"), "R2")

\* C18: whenever the session holds a source, the MIME type it holds is the MIME
\* type of that source, and a pending image call's request pairs the payload of
\* its source with that source's MIME type.
C18_MimeOfSource ==
  /\ selectedFile # Null => mimeType = selectedFile.mime
  /\ \A i \in 1..Len(procs) :
       procs[i].tab = "image" => procs[i].request.mimeType = procs[i].src.mime

\* C19: whenever the session holds a source, the source is an image in image
\* mode and a video in video mode.
C19_SourceKindOfMode ==
  selectedFile # Null => selectedFile.mime.major = activeTab

\* C20: processing is true while a handleProcess invocation is pending, at its
\* image call, key check, key prompt, submission, wait or poll; the step that
\* ends an invocation, by success, empty result or fault, leaves processing
\* false; discard, selectMode, loadSource (its dispatch and the end of its read)
\* and selectHistoryEntry leave processing as it was.
C20_ProcessingFlag ==
  /\ [](\A i \in 1..Len(procs) :
          /\ procs[i].pc \in CallPcs \cup { "hasKey", "promptBefore", "promptCatch" }
          /\ isProcessing)
  /\ [][ /\ Len(procs') < Len(procs) =>
              /\ lastEvent'.op = "handleProcess"
              /\ lastEvent'.arg.outcome \in { "success", "empty", "fault", "authError" }
              /\ ~isProcessing'
         /\ lastEvent'.op = "handleProcess" /\ procs' # procs
              /\ lastEvent'.arg.outcome \in { "success", "empty", "fault", "authError" } =>
              ~isProcessing' /\ Len(procs') = Len(procs) - 1
         /\ lastEvent'.op \in { "discard", "selectMode", "loadSource", "readDone",
                                "selectHistoryEntry" } =>
              isProcessing' = isProcessing /\ procs' = procs ]_vars

\* the session was discarded during the key prompt that follows an
\* authentication fault, and processing is still true
C20_Witness ==
  /\ lastEvent.op = "discard"
  /\ isProcessing
  /\ selectedFile = Null
  /\ \E i \in 1..Len(procs) : procs[i].pc = "promptCatch"

\* C21: a start dispatched while the session holds a result empties error and
\* keeps the result and the history; every later step of the invocation up to
\* its end leaves error, result and history as they are; its end by an empty
\* result or a fault sets a non-empty error and keeps the result and the
\* history, so that the session shows the error beside the previous result; its
\* end by success keeps error as it is (empty, when nothing else has set it
\* since the dispatch) and makes the new asset the result.
C21_RefineKeepsResult ==
  [][ /\ lastEvent'.op = "startProcessing" /\ procs' # procs /\ processedResult # Null =>
           /\ error' = NoError
           /\ processedResult' = processedResult
           /\ history' = history
           /\ isProcessing'
      /\ lastEvent'.op = "handleProcess" /\ procs' # procs =>
           /\ lastEvent'.arg.outcome \in { "hasKey", "prompted", "notDone", "poll",
                                          "authFault" } =>
                /\ error' = error
                /\ processedResult' = processedResult
                /\ history' = history
           /\ lastEvent'.arg.outcome \in { "empty", "fault", "authError" } =>
                /\ error' # NoError
                /\ processedResult' = processedResult
                /\ history' = history
           /\ lastEvent'.arg.outcome = "success" =>
                /\ error' = error
                /\ processedResult' # Null
                /\ processedResult' = history'[1].edited
                /\ Tail(history') = history ]_vars

\* a refine of the result of the session's source has just ended empty: the
\* session holds the failure message and the previous result
C21_Witness ==
  /\ lastEvent.op = "handleProcess"
  /\ lastEvent.arg.outcome = "empty"
  /\ error = ImageFailedMsg
  /\ processedResult # Null
  /\ resultOrigin = selectedFile
  /\ Len(history) = 1
  /\ history[1].edited = processedResult
  /\ ~isProcessing

====
